---- MODULE Spec2Model ----
(***************************************************************************)
(* Navigation shell of ProMan's frontend (frontend/src/App.tsx).           *)
(*                                                                         *)
(* App mounts a BrowserRouter around AppLayout.  AppLayout renders a       *)
(* header of four <Link>s and a <Routes> table of five <Route>s inside     *)
(* <main>.  The state is the browser's session history (the entries, the   *)
(* current index, and which entries belong to the live document) plus      *)
(* what AppLayout currently has rendered in <header> and <main>.           *)
(*                                                                         *)
(* A path is the sequence of its segments: "/" is << >>, "/auth/login" is  *)
(* <<"auth", "login">>.                                                    *)
(***************************************************************************)
EXTENDS Naturals, Sequences, FiniteSets

VARIABLES entries, index, docLo, docHi, header, main, lastOp

vars == <<entries, index, docLo, docHi, header, main, lastOp>>

(* Bounds of the model. *)
MaxDepth == 2
MaxHist == 2

(* First segments a user may type: the four routed prefixes, the target   *)
(* of the Login link, an unrouted name and an upper-case spelling.         *)
Heads == {"auth", "projects", "tasks", "chat", "login", "unknown", "AUTH"}

(* What a user may type below the first segment: nothing, "auth" (a      *)
(* routed name in second place), or a nested sub-path login/auth/login... *)
(* of up to MaxDepth - 1 segments.                                         *)
Nested(k) == [i \in 1..k |-> IF i % 2 = 1 THEN "login" ELSE "auth"]

Tails == {<< >>, <<"auth">>} \cup {Nested(k) : k \in 1..(MaxDepth - 1)}

Paths == {<< >>} \cup {<<h>> \o t : h \in Heads, t \in Tails}

----------------------------------------------------------------------------
(* Elements a route can render. *)
Component(n) == [kind |-> "component", name |-> n, to |-> << >>]

UserAuthRoutes == Component("UserAuthRoutes")
ProjectsRoutes == Component("ProjectsRoutes")
TasksRoutes == Component("TasksRoutes")
ChatRoutes == Component("ChatRoutes")
Welcome == [kind |-> "static", name |-> "h2", to |-> << >>]

(* A redirect element: not used by App.tsx, it is what a fallback route   *)
(* would render.                                                           *)
NavigateTo(p) == [kind |-> "navigate", name |-> "Navigate", to |-> p]

Delegates == {UserAuthRoutes, ProjectsRoutes, TasksRoutes, ChatRoutes}

(* The header links, in document order. *)
HeaderLinksAnchors ==
    << [label |-> "Projects", to |-> <<"projects">>, tag |-> "a"],
       [label |-> "Tasks", to |-> <<"tasks">>, tag |-> "a"],
       [label |-> "Chat", to |-> <<"chat">>, tag |-> "a"],
       [label |-> "Login", to |-> <<"login">>, tag |-> "a"] >>

HeaderLinks ==
    << [label |-> "Projects", to |-> <<"projects">>, tag |-> "Link"],
       [label |-> "Tasks", to |-> <<"tasks">>, tag |-> "Link"],
       [label |-> "Chat", to |-> <<"chat">>, tag |-> "Link"],
       [label |-> "Login", to |-> <<"login">>, tag |-> "Link"] >>

(* The routing table, in document order.  splat marks a trailing "/*". *)
RouteTableWithFallback ==
    << [path |-> <<"auth">>, splat |-> TRUE, element |-> UserAuthRoutes],
       [path |-> <<"projects">>, splat |-> TRUE, element |-> ProjectsRoutes],
       [path |-> <<"tasks">>, splat |-> TRUE, element |-> TasksRoutes],
       [path |-> <<"chat">>, splat |-> TRUE, element |-> ChatRoutes],
       [path |-> << >>, splat |-> FALSE, element |-> Welcome],
       [path |-> << >>, splat |-> TRUE, element |-> NavigateTo(<< >>)] >>

RouteTableSwapped ==
    << [path |-> <<"auth">>, splat |-> TRUE, element |-> UserAuthRoutes],
       [path |-> <<"projects">>, splat |-> TRUE, element |-> TasksRoutes],
       [path |-> <<"tasks">>, splat |-> TRUE, element |-> ProjectsRoutes],
       [path |-> <<"chat">>, splat |-> TRUE, element |-> ChatRoutes],
       [path |-> << >>, splat |-> FALSE, element |-> Welcome] >>

RouteTableAuthExact ==
    << [path |-> <<"auth">>, splat |-> FALSE, element |-> UserAuthRoutes],
       [path |-> <<"projects">>, splat |-> TRUE, element |-> ProjectsRoutes],
       [path |-> <<"tasks">>, splat |-> TRUE, element |-> TasksRoutes],
       [path |-> <<"chat">>, splat |-> TRUE, element |-> ChatRoutes],
       [path |-> << >>, splat |-> FALSE, element |-> Welcome] >>

RouteTableWelcomeSplat ==
    << [path |-> <<"auth">>, splat |-> TRUE, element |-> UserAuthRoutes],
       [path |-> <<"projects">>, splat |-> TRUE, element |-> ProjectsRoutes],
       [path |-> <<"tasks">>, splat |-> TRUE, element |-> TasksRoutes],
       [path |-> <<"chat">>, splat |-> TRUE, element |-> ChatRoutes],
       [path |-> << >>, splat |-> TRUE, element |-> Welcome] >>

RouteTable ==
    << [path |-> <<"auth">>, splat |-> TRUE, element |-> UserAuthRoutes],
       [path |-> <<"projects">>, splat |-> TRUE, element |-> ProjectsRoutes],
       [path |-> <<"tasks">>, splat |-> TRUE, element |-> TasksRoutes],
       [path |-> <<"chat">>, splat |-> TRUE, element |-> ChatRoutes],
       [path |-> << >>, splat |-> FALSE, element |-> Welcome] >>

----------------------------------------------------------------------------
(* Route matching of <Routes>.  No route sets caseSensitive, so segments   *)
(* are compared with case folded.                                          *)
Fold(s) == IF s = "AUTH" THEN "auth" ELSE s

(* A route pattern matches a path when the path starts with the pattern's *)
(* segments and, unless the pattern ends in "/*", has no more segments.    *)
MatchPath(route, p) ==
    /\ Len(p) >= Len(route.path)
    /\ \A i \in 1..Len(route.path) : Fold(p[i]) = Fold(route.path[i])
    /\ (route.splat \/ Len(p) = Len(route.path))

(* Rank of a route pattern: one point per piece of the pattern split at   *)
(* "/", two off for a splat, ten per static segment, one per empty piece.  *)
Score(route) ==
    IF Len(route.path) = 0
    THEN (IF route.splat THEN 1 ELSE 4)
    ELSE (IF route.splat THEN Len(route.path) ELSE Len(route.path) + 1)
         + 1 + 10 * Len(route.path)

(* Index of the route <Routes> picks for a path: the matching route of    *)
(* highest rank, the earlier one among equals; 0 when none matches.        *)
MatchRoutes(table, p) ==
    LET hits == {i \in 1..Len(table) : MatchPath(table[i], p)}
    IN  IF hits = {} THEN 0
        ELSE CHOOSE i \in hits :
                \A j \in hits :
                    \/ Score(table[i]) > Score(table[j])
                    \/ (Score(table[i]) = Score(table[j]) /\ i <= j)

(* What <Routes> renders inside <main>: the matched route's element, or   *)
(* nothing.                                                                *)
RenderRoutesAll(p) ==
    {RouteTable[i].element : i \in {j \in 1..Len(RouteTable) : MatchPath(RouteTable[j], p)}}
        \cup {Welcome}

RenderRoutes(p) ==
    LET i == MatchRoutes(RouteTable, p)
    IN  IF i = 0 THEN {} ELSE {RouteTable[i].element}

(* What AppLayout renders inside <header>. *)
RenderHeaderInRoute(p) == IF RenderRoutes(p) = {} THEN << >> ELSE HeaderLinks

RenderHeader(p) == HeaderLinks

----------------------------------------------------------------------------
(* Session history operations of the platform. *)

(* pushState: the entries after the current one are dropped and one is    *)
(* appended.                                                               *)
PushEntryKeepForward(es, i, p) == Append(es, p)

PushEntry(es, i, p) == Append(SubSeq(es, 1, i), p)

(* replaceState: the current entry is overwritten in place. *)
ReplaceEntry(es, i, p) == [es EXCEPT ![i] = p]

(* Rendering the matched element: a redirect element replaces the current *)
(* entry by its target, every other element leaves the history alone.      *)
Commit(es, i) ==
    LET redirects == {e \in RenderRoutes(es[i]) : e.kind = "navigate"}
    IN  IF redirects = {} THEN es
        ELSE ReplaceEntry(es, i, (CHOOSE e \in redirects : TRUE).to)

path == entries[index]

(* App: the router reads the location and AppLayout renders under it. *)
Rendered(es, i) ==
    /\ entries' = Commit(es, i)
    /\ index' = i
    /\ header' = RenderHeader(Commit(es, i)[i])
    /\ main' = RenderRoutes(Commit(es, i)[i])

Op(g, l, p, r) == [gesture |-> g, link |-> l, to |-> p, reload |-> r]

(* The user opens the application at some URL: a document is loaded and   *)
(* App is mounted.                                                         *)
Init ==
    \E p \in Paths :
        /\ entries = Commit(<<p>>, 1)
        /\ index = 1
        /\ docLo = 1
        /\ docHi = 1
        /\ header = RenderHeader(Commit(<<p>>, 1)[1])
        /\ main = RenderRoutes(Commit(<<p>>, 1)[1])
        /\ lastOp = Op("open", "", p, TRUE)

(* A document load of path p from the current entry: a new entry, a new   *)
(* document, a new App.                                                    *)
LoadDocument(p) ==
    /\ index < MaxHist
    /\ Rendered(PushEntry(entries, index, p), index + 1)
    /\ docLo' = index + 1
    /\ docHi' = index + 1

(* The user types a URL into the address bar. *)
GoTo(p) ==
    /\ LoadDocument(p)
    /\ lastOp' = Op("goto", "", p, TRUE)

(* The user clicks the k-th link of the rendered header.  A <Link>        *)
(* navigates inside the running application: it replaces the current      *)
(* entry when it points at the current location and pushes otherwise.  A  *)
(* plain anchor makes the browser load the target as a new document.      *)
ClickLink(k) ==
    /\ k \in 1..Len(header)
    /\ LET link == header[k]
       IN  IF link.tag = "Link"
           THEN /\ IF path = link.to
                   THEN /\ Rendered(ReplaceEntry(entries, index, link.to), index)
                        /\ docHi' = docHi
                   ELSE /\ index < MaxHist
                        /\ Rendered(PushEntry(entries, index, link.to), index + 1)
                        /\ docHi' = index + 1
                /\ docLo' = docLo
                /\ lastOp' = Op("click", link.label, link.to, FALSE)
           ELSE /\ LoadDocument(link.to)
                /\ lastOp' = Op("click", link.label, link.to, TRUE)

(* Traversal to entry i: inside the live document the router receives a   *)
(* popstate event and re-renders; an entry of another document is loaded  *)
(* anew.                                                                   *)
Traverse(g, i) ==
    /\ Rendered(entries, i)
    /\ IF docLo <= i /\ i <= docHi
       THEN /\ docLo' = docLo
            /\ docHi' = docHi
            /\ lastOp' = Op(g, "", entries[i], FALSE)
       ELSE /\ docLo' = i
            /\ docHi' = i
            /\ lastOp' = Op(g, "", entries[i], TRUE)

BackStale ==
    /\ index > 1
    /\ index' = index - 1
    /\ lastOp' = Op("back", "", entries[index - 1], FALSE)
    /\ UNCHANGED <<entries, docLo, docHi, header, main>>

Back ==
    /\ index > 1
    /\ Traverse("back", index - 1)

Forward ==
    /\ index < Len(entries)
    /\ Traverse("forward", index + 1)

Next ==
    \/ \E p \in Paths : GoTo(p)
    \/ \E k \in 1..4 : ClickLink(k)
    \/ Back
    \/ Forward

Spec == Init /\ [][Next]_vars

----------------------------------------------------------------------------
(* Vocabulary of the properties, written from the routing table of the    *)
(* specification and not from RouteTable.                                  *)

RoutedHeads == {"auth", "projects", "tasks", "chat"}

(* p is the path `/name` or lies below it, as the router compares         *)
(* segments (case folded).                                                 *)
Under(p, name) == Len(p) >= 1 /\ Fold(p[1]) = name

Routed(p) == p = << >> \/ \E n \in RoutedHeads : Under(p, n)

(* The section each header link names. *)
SectionOf(label) ==
    CASE label = "Projects" -> ProjectsRoutes
      [] label = "Tasks" -> TasksRoutes
      [] label = "Chat" -> ChatRoutes
      [] label = "Login" -> UserAuthRoutes

LinkTarget(label) ==
    CASE label = "Projects" -> <<"projects">>
      [] label = "Tasks" -> <<"tasks">>
      [] label = "Chat" -> <<"chat">>
      [] label = "Login" -> <<"login">>

(* The content the specification's table assigns to a path. *)
ContentOf(p) ==
    IF p = << >> THEN {Welcome}
    ELSE IF Under(p, "auth") THEN {UserAuthRoutes}
    ELSE IF Under(p, "projects") THEN {ProjectsRoutes}
    ELSE IF Under(p, "tasks") THEN {TasksRoutes}
    ELSE IF Under(p, "chat") THEN {ChatRoutes}
    ELSE {}

----------------------------------------------------------------------------
(* C1: after a click on a header link the path is the link's target and   *)
(* the delegate of the section the link names is what is mounted.          *)
C1_LinkLeadsToSection ==
    lastOp.gesture = "click" =>
        /\ path = LinkTarget(lastOp.link)
        /\ main = {SectionOf(lastOp.link)}

(* C2: in every state exactly one route subtree is active. *)
C2_ExactlyOneActive == Cardinality(main) = 1

(* C2, amended: at most one route subtree is active, and one is active    *)
(* exactly when the path is `/` or lies under one of the four prefixes.    *)
C2_AtMostOneActive ==
    /\ Cardinality(main) <= 1
    /\ (Cardinality(main) = 1 <=> Routed(path))

C2_Witness ==
    /\ lastOp.gesture = "back"
    /\ path = <<"unknown", "auth">>
    /\ Cardinality(main) = 0
    /\ entries[2] = <<"chat">>

(* C3: at `/projects` and every path below it the projects delegate is    *)
(* mounted and nothing else is.                                            *)
C3_ProjectsMounted ==
    (Len(path) >= 1 /\ path[1] = "projects") => main = {ProjectsRoutes}

C3_Witness ==
    /\ path = <<"projects", "login">>
    /\ main = {ProjectsRoutes}
    /\ lastOp.gesture = "goto"

(* C4: a path that is neither `/` nor under one of the four prefixes      *)
(* leaves the main region empty, and the path stays the one navigated to.  *)
C4_UnmatchedBlank ==
    /\ ~Routed(path) => main = {}
    /\ ~Routed(lastOp.to) => path = lastOp.to

C4_Witness ==
    /\ lastOp = Op("goto", "", <<"unknown">>, TRUE)
    /\ path = <<"unknown">>
    /\ main = {}

(* C5: a click on the Chat link at `/tasks` leaves chat mounted and tasks *)
(* not, on the path `/chat`, without a document load.                      *)
C5_TasksToChat ==
    [][(/\ path = <<"tasks">>
        /\ main = {TasksRoutes}
        /\ lastOp'.gesture = "click"
        /\ lastOp'.link = "Chat")
       => (/\ path' = <<"chat">>
           /\ main' = {ChatRoutes}
           /\ ~lastOp'.reload)]_vars

C5_Witness ==
    /\ lastOp = Op("click", "Chat", <<"chat">>, FALSE)
    /\ index = 2
    /\ entries[1] = <<"tasks">>
    /\ path = <<"chat">>
    /\ main = {ChatRoutes}

(* C6: the welcome heading is rendered exactly at the path `/`, and there *)
(* it is all the main region holds.                                        *)
C6_WelcomeOnlyAtRoot ==
    /\ (Welcome \in main <=> path = << >>)
    /\ (path = << >> => main = {Welcome})

C6_Witness ==
    /\ path = << >>
    /\ main = {Welcome}
    /\ lastOp.gesture = "back"

(* C7: the authentication delegate is mounted at every path under `/auth` *)
(* and at no other path.                                                   *)
C7_AuthNested == (UserAuthRoutes \in main) <=> Under(path, "auth")

C7_Witness ==
    /\ lastOp.gesture = "goto"
    /\ entries[1] = <<"login", "auth">>
    /\ path = <<"auth", "login">>
    /\ main = {UserAuthRoutes}

(* C8: the header shows its four links after every navigation, also on an *)
(* unmatched path.                                                         *)
C8_HeaderPersistent ==
    /\ Len(header) = 4
    /\ [k \in 1..4 |-> header[k].label] = <<"Projects", "Tasks", "Chat", "Login">>
    /\ [k \in 1..4 |-> header[k].to] =
          <<(<<"projects">>), (<<"tasks">>), (<<"chat">>), (<<"login">>)>>

C8_Witness ==
    /\ lastOp.gesture = "forward"
    /\ ~Routed(path)
    /\ main = {}
    /\ Len(header) = 4

(* C9: a link click keeps every entry before the current one and either   *)
(* appends one entry for the target or replaces the current entry; and no  *)
(* step leaves the current path anywhere but where the navigation went.    *)
C9_HistoryAppendReplace ==
    [][/\ entries'[index'] = lastOp'.to
       /\ lastOp'.gesture = "click" =>
            /\ Len(entries') >= index
            /\ \A i \in 1..(index - 1) : entries'[i] = entries[i]
            /\ \/ /\ index' = index + 1
                  /\ Len(entries') = index + 1
                  /\ entries'[index] = entries[index]
               \/ /\ index' = index
                  /\ Len(entries') = Len(entries)
                  /\ \A i \in (index + 1)..Len(entries) : entries'[i] = entries[i]]_vars

C9_Witness ==
    /\ lastOp = Op("click", "Login", <<"login">>, FALSE)
    /\ index = 2
    /\ entries = <<(<<"unknown">>), (<<"login">>)>>
    /\ main = {}

(* C10: what the main region holds is a function of the current path      *)
(* alone, whatever was visited before.                                     *)
C10_ContentByPath == main = ContentOf(path)

C10_Witness ==
    /\ lastOp.gesture = "back"
    /\ Len(entries) = 2
    /\ index = 1
    /\ path = <<"tasks">>
    /\ entries[2] = <<"chat">>
    /\ main = {TasksRoutes}

====
